---------------------------- MODULE Spec2Model ----------------------------
(***************************************************************************)
(* n29-climarisk: the hash-chained ledger (ledger_events), the commands    *)
(* of the API service, the refresh job of the worker service, the two      *)
(* projections (location_state, weather_snapshots), the genesis bootstrap  *)
(* of init.sql and the audit verifier.                                     *)
(*                                                                         *)
(* Every `await` of the JavaScript handlers is one step of the model: the  *)
(* handlers of concurrent HTTP requests and of concurrent worker           *)
(* processes interleave exactly at these points.  Every SQL statement is   *)
(* atomic (autocommit); the code opens no transaction and takes no lock.   *)
(*                                                                         *)
(* JSON values are tagged trees.  SHA-256 is modelled as a collision-free  *)
(* function of its input string.  Timestamps (created_at, updated_at) are  *)
(* not modelled: no modelled code reads them.                              *)
(***************************************************************************)
EXTENDS Integers, Sequences, FiniteSets, TLC

(***************************************************************************)
(* JSON value trees                                                        *)
(***************************************************************************)
JNull == [t |-> "null"]
JUndef == [t |-> "undef"]
JNonFinite == [t |-> "nonfinite"]
JNum(n) == [t |-> "num", n |-> n]
JBool(b) == [t |-> "bool", b |-> b]
JStr(s) == [t |-> "str", s |-> s]
JArr(a) == [t |-> "arr", a |-> a]
\* an object: its <<key, value>> pairs in insertion order, keys unique
JObj(o) == [t |-> "obj", o |-> o]

\* v[k] of JavaScript, with optional chaining: undefined when v is no
\* object or has no key k
Get(v, k) ==
  IF v.t = "obj" /\ \E i \in 1..Len(v.o) : v.o[i][1] = k
  THEN v.o[CHOOSE i \in 1..Len(v.o) : v.o[i][1] = k][2]
  ELSE JUndef

\* a ?? b
Nullish(a, b) == IF a.t \in {"null", "undef"} THEN b ELSE a

\* The keys of the model's payloads in the order of Array.prototype.sort()
\* (UTF-16 code units), used by Object.keys(v).sort()
JsKeyOrder ==
  << "1h", "applied_rule", "decision", "event_type", "id", "inputs",
     "is_active", "lat", "location", "locationId", "lon", "main", "name",
     "note", "payload", "rain", "rain1hMm", "raw_weather", "rules",
     "severity", "speed", "temp", "tempC", "version", "why", "wind",
     "windMs" >>

\* The same keys in the order a JSONB object stores them (shorter keys
\* first, then bytewise)
JsonbKeyOrder ==
  << "1h", "id", "lat", "lon", "why", "main", "name", "note", "rain",
     "temp", "wind", "rules", "speed", "tempC", "inputs", "windMs",
     "payload", "version", "decision", "location", "rain1hMm", "severity",
     "is_active", "event_type", "locationId", "raw_weather",
     "applied_rule" >>

Rank(order, k) == CHOOSE i \in 1..Len(order) : order[i] = k

RECURSIVE InsertPair(_, _, _)
InsertPair(sorted, p, order) ==
  IF sorted = << >> THEN << p >>
  ELSE IF Rank(order, p[1]) < Rank(order, Head(sorted)[1])
       THEN << p >> \o sorted
       ELSE << Head(sorted) >> \o InsertPair(Tail(sorted), p, order)

\* the pairs of an object sorted by key in the given key order
RECURSIVE SortPairs(_, _)
SortPairs(pairs, order) ==
  IF pairs = << >> THEN << >>
  ELSE InsertPair(SortPairs(SubSeq(pairs, 1, Len(pairs) - 1), order),
                  pairs[Len(pairs)], order)

\* Array.prototype.join(",")
RECURSIVE JoinComma(_)
JoinComma(strs) ==
  IF strs = << >> THEN ""
  ELSE IF Len(strs) = 1 THEN strs[1]
  ELSE strs[1] \o "," \o JoinComma(Tail(strs))

\* JSON.stringify of a string without characters to escape
Quote(s) == "\"" \o s \o "\""

\* the pairs as Object.keys(v) lists them, unsorted
KeysUnsorted(pairs, order) == pairs

\* Object.keys(v).sort()
KeysSorted(pairs, order) == SortPairs(pairs, order)

RECURSIVE stableStringify(_)
stableStringify(v) ==
  CASE v.t \in {"null", "undef"} -> "null"
    [] v.t = "nonfinite" -> "null"
    [] v.t = "num" -> ToString(v.n)
    [] v.t = "bool" -> IF v.b THEN "true" ELSE "false"
    [] v.t = "str" -> Quote(v.s)
    [] v.t = "arr" ->
         "[" \o JoinComma([i \in 1..Len(v.a) |-> stableStringify(v.a[i])]) \o "]"
    [] v.t = "obj" ->
         LET keys == KeysSorted(v.o, JsKeyOrder)
         IN "{" \o JoinComma([i \in 1..Len(keys) |->
                    Quote(keys[i][1]) \o ":" \o stableStringify(keys[i][2])])
                \o "}"

\* SHA-256 in lowercase hex, as a collision-free function of the input
sha256Hex(s) == "sha256(" \o s \o ")"


(***************************************************************************)
(* What a JSONB column holds of a JavaScript value: the pg driver sends    *)
(* JSON.stringify(value) (undefined members dropped, undefined elements    *)
(* and non-finite numbers written as null) and PostgreSQL stores the       *)
(* object keys in its own order.  A JSONB number is a numeric: it keeps    *)
(* every digit it was written with.                                        *)
(***************************************************************************)
\* the JSONB number n followed by digits a double cannot hold (tail # 0),
\* such as 10.00000000000000000001; only an UPDATE can have written one
JNumeric(n, tail) == [t |-> "numeric", n |-> n, tail |-> tail]

RECURSIVE DropUndef(_)
DropUndef(pairs) ==
  IF pairs = << >> THEN << >>
  ELSE IF Head(pairs)[2].t = "undef" THEN DropUndef(Tail(pairs))
  ELSE << Head(pairs) >> \o DropUndef(Tail(pairs))

RECURSIVE ToJsonb(_)
ToJsonb(v) ==
  CASE v.t \in {"undef", "nonfinite"} -> JNull
    [] v.t = "arr" -> JArr([i \in 1..Len(v.a) |-> ToJsonb(v.a[i])])
    [] v.t = "obj" ->
         LET kept == SortPairs(DropUndef(v.o), JsonbKeyOrder)
         IN JObj([i \in 1..Len(kept) |-> << kept[i][1], ToJsonb(kept[i][2]) >>])
    [] OTHER -> v

\* What reading a JSONB column gives: the driver parses the text of the
\* value with JSON.parse, which rounds a number to the nearest double
RECURSIVE PgRead(_)
PgRead(v) ==
  CASE v.t = "numeric" -> JNum(v.n)
    [] v.t = "arr" -> JArr([i \in 1..Len(v.a) |-> PgRead(v.a[i])])
    [] v.t = "obj" -> JObj([i \in 1..Len(v.o) |-> << v.o[i][1], PgRead(v.o[i][2]) >>])
    [] OTHER -> v

(***************************************************************************)
(* The decision rules of the worker                                        *)
(***************************************************************************)
\* x > n where the code has x >= n
GeStrict(x, n) == (x.t = "num" /\ x.n > n) \/ (x.t = "null" /\ 0 > n)

\* x >= n and x <= n of JavaScript for x a number or null (null compares
\* as 0; undefined as NaN, every comparison false)
Ge(x, n) == (x.t = "num" /\ x.n >= n) \/ (x.t = "null" /\ 0 >= n)
Le(x, n) == (x.t = "num" /\ x.n <= n) \/ (x.t = "null" /\ 0 <= n)

Rule(id, severity, why) == [id |-> id, severity |-> severity, why |-> why]

\* the rule ids in the order of String.prototype.localeCompare
RuleIdOrder ==
  << "RAIN_20MM_1H", "RAIN_8MM_1H", "TEMP_-3C", "TEMP_2C", "TEMP_33C",
     "TEMP_38C", "WIND_12MS", "WIND_20MS" >>

RECURSIVE InsertRule(_, _)
InsertRule(sorted, r) ==
  IF sorted = << >> THEN << r >>
  ELSE IF Rank(RuleIdOrder, r.id) < Rank(RuleIdOrder, Head(sorted).id)
       THEN << r >> \o sorted
       ELSE << Head(sorted) >> \o InsertRule(Tail(sorted), r)

\* the rules left in the order they were pushed
SortRulesNone(rules) == rules

\* rules.sort((a,b) => a.id.localeCompare(b.id))
RECURSIVE SortRules(_)
SortRules(rules) ==
  IF rules = << >> THEN << >>
  ELSE InsertRule(SortRules(SubSeq(rules, 1, Len(rules) - 1)), rules[Len(rules)])

RuleJson(r) ==
  JObj(<< << "id", JStr(r.id) >>, << "severity", JStr(r.severity) >>,
          << "why", JStr(r.why) >> >>)

decideRisk(tempC, windMs, rain1hMm) ==
  LET rain == IF Ge(rain1hMm, 20)
                THEN << Rule("RAIN_20MM_1H", "CRITICAL", "rain_1h_mm>=20") >>
              ELSE IF Ge(rain1hMm, 8)
                THEN << Rule("RAIN_8MM_1H", "ALERT", "rain_1h_mm>=8") >>
              ELSE << >>
      wind == IF Ge(windMs, 20)
                THEN << Rule("WIND_20MS", "CRITICAL", "wind_ms>=20") >>
              ELSE IF Ge(windMs, 12)
                THEN << Rule("WIND_12MS", "ALERT", "wind_ms>=12") >>
              ELSE << >>
      heat == IF Ge(tempC, 38)
                THEN << Rule("TEMP_38C", "CRITICAL", "temp_c>=38") >>
              ELSE IF Ge(tempC, 33)
                THEN << Rule("TEMP_33C", "ALERT", "temp_c>=33") >>
              ELSE << >>
      cold == IF Le(tempC, -3)
                THEN << Rule("TEMP_-3C", "CRITICAL", "temp_c<=-3") >>
              ELSE IF Le(tempC, 2)
                THEN << Rule("TEMP_2C", "ALERT", "temp_c<=2") >>
              ELSE << >>
      pushed == rain \o wind \o heat \o cold
      decision ==
        IF \E i \in 1..Len(pushed) : pushed[i].severity = "CRITICAL" THEN "CRITICAL"
        ELSE IF \E i \in 1..Len(pushed) : pushed[i].severity = "ALERT" THEN "ALERT"
        ELSE "NORMAL"
      rules == SortRules(pushed)
  IN [decision |-> decision,
      rules |-> rules,
      applied_rule |->
        JObj(<< << "version", JNum(1) >>,
                << "inputs", JObj(<< << "tempC", tempC >>, << "windMs", windMs >>,
                                     << "rain1hMm", rain1hMm >> >>) >>,
                << "rules", JArr([i \in 1..Len(rules) |-> RuleJson(rules[i])]) >> >>)]

(***************************************************************************)
(* Bounds and inputs                                                       *)
(***************************************************************************)
\* commands (create, refresh) the API accepts in one run of the model
MaxCmds == 2
\* applications of applyProjections in ProjSpec
MaxApply == 4

\* concurrent HTTP request handlers, worker processes, and runs of init.sql
ApiProcs == {"a1"}
WorkerIds == << "w1", "w2" >>
BootIds == << "b1", "b2" >>
Workers == {WorkerIds[i] : i \in 1..Len(WorkerIds)}
BootProcs == {BootIds[i] : i \in 1..Len(BootIds)}

\* the ids gen_random_uuid() hands out, in order
LocIds == << "L1", "L2" >>

\* the validated body of POST /api/cmd/locations for a location
LocName(id) == "site-" \o id
LocLat(id) == 10
LocLon(id) == 20

\* what the sensor answers: a calm reading without a rain member, and a hot
\* storm
RawCalm ==
  JObj(<< << "main", JObj(<< << "temp", JNum(25) >> >>) >>,
          << "wind", JObj(<< << "speed", JNum(3) >> >>) >> >>)
RawStorm ==
  JObj(<< << "wind", JObj(<< << "speed", JNum(25) >> >>) >>,
          << "main", JObj(<< << "temp", JNum(35) >> >>) >>,
          << "rain", JObj(<< << "1h", JNum(0) >> >>) >> >>)
Readings == {RawCalm, RawStorm}

(***************************************************************************)
(* State                                                                   *)
(***************************************************************************)
VARIABLES
  ledger,             \* ledger_events, in id order
  ledgerSeq,          \* the next value of ledger_events' BIGSERIAL
  locations,          \* ids of the rows of locations (all is_active)
  location_state,     \* the rows of location_state (location_id is the key)
  weather_snapshots,  \* weather_snapshots, in id order
  queue,              \* the refresh-location jobs waiting, oldest first
  api,                \* each request handler's position and locals
  wk,                 \* each worker process's position and locals
  boot,               \* each run of init.sql: "idle" (not begun), "insert", "done"
  audit,              \* the last response of GET /api/read/audit/verify, if any
  cmds,               \* commands accepted so far (bounded by MaxCmds)
  overlapped,         \* history: some append read the last hash while
                      \* another append was between its read and insert
  tampered,           \* history: the index of the row changed behind the
                      \* system's back, 0 when none was
  canon               \* two value trees and what stableStringify returned
                      \* for each, when it was called on them; << >> else
vars ==
  << ledger, ledgerSeq, locations, location_state, weather_snapshots, queue,
     api, wk, boot, audit, cmds, overlapped, tampered, canon >>

\* res is how the handler's last run ended ("" before the first): for a
\* request "ok" (res.json), "404", or "threw" (an await rejected or the
\* handler threw); for a job "completed" or "failed: " and the cause
ApiIdle ==
  [pc |-> "idle", loc |-> "", eventType |-> "", prevHash |-> "", eventHash |-> "",
   res |-> ""]
WkIdle ==
  [pc |-> "idle", loc |-> "", raw |-> JNull, prevHash |-> "", eventHash |-> "",
   res |-> ""]
ApiDone(res) == [ApiIdle EXCEPT !.res = res]
WkDone(res) == [WkIdle EXCEPT !.res = res]

Init ==
  /\ ledger = << >>
  /\ ledgerSeq = 1
  /\ locations = {}
  /\ location_state = {}
  /\ weather_snapshots = << >>
  /\ queue = << >>
  /\ api = [a \in ApiProcs |-> ApiIdle]
  /\ wk = [w \in Workers |-> WkIdle]
  /\ boot = [b \in BootProcs |-> "idle"]
  /\ audit = << >>
  /\ cmds = 0
  /\ overlapped = FALSE
  /\ tampered = 0
  /\ canon = << >>

(***************************************************************************)
(* The ledger table and the append protocol                                *)
(***************************************************************************)
LedgerRow(id, eventType, payload, prevHash, eventHash) ==
  [id |-> id, event_type |-> eventType, payload |-> payload,
   prev_hash |-> prevHash, event_hash |-> eventHash]

\* select event_hash from ledger_events order by id desc limit 1
LastRows(rows) == IF rows = << >> THEN << >> ELSE << rows[Len(rows)] >>

\* the UNIQUE constraint on event_hash: a row with this hash exists
HashTaken(rows, h) == \E i \in 1..Len(rows) : rows[i].event_hash = h

\* ledger_events without the UNIQUE constraint
InsertLedgerNoUnique(rows, id, eventType, payloadObj, prevHash, eventHash) ==
  Append(rows, LedgerRow(id, eventType, ToJsonb(payloadObj), prevHash, eventHash))

\* an insert that replaces the row holding the event_hash (the old row is
\* deleted, the new one gets the next id)
InsertLedgerReplace(rows, id, eventType, payloadObj, prevHash, eventHash) ==
  LET Other(r) == r.event_hash # eventHash
  IN Append(SelectSeq(rows, Other),
            LedgerRow(id, eventType, ToJsonb(payloadObj), prevHash, eventHash))

\* insert into ledger_events(...) values(...): the table after the insert;
\* unchanged when the UNIQUE constraint rejects the row
InsertLedger(rows, id, eventType, payloadObj, prevHash, eventHash) ==
  IF HashTaken(rows, eventHash) THEN rows
  ELSE Append(rows, LedgerRow(id, eventType, ToJsonb(payloadObj), prevHash, eventHash))

\* a hash over the previous hash and the payload, the event type left out
AppendHashNoType(prevHash, eventType, payloadObj) ==
  sha256Hex(prevHash \o "\n" \o
            stableStringify(JObj(<< << "payload", payloadObj >> >>)))

\* canonical and eventHash of appendLedgerEvent
AppendHash(prevHash, eventType, payloadObj) ==
  sha256Hex(prevHash \o "\n" \o
            stableStringify(JObj(<< << "event_type", JStr(eventType) >>,
                                    << "payload", payloadObj >> >>)))

\* some other append has read the last hash and not yet inserted
AppendInFlight(self) ==
  \/ \E a \in DOMAIN api \ {self} : api[a].pc = "append_insert"
  \/ \E w \in DOMAIN wk \ {self} : wk[w].pc = "append_insert"

(***************************************************************************)
(* init.sql: the genesis block                                             *)
(***************************************************************************)
GenesisPayload == JObj(<< << "note", JStr("n29 climarisk genesis") >> >>)
GenesisHash ==
  sha256Hex("0" \o "\n" \o
    "{\"event_type\":\"GENESIS\",\"payload\":{\"note\":\"n29 climarisk genesis\"}}")

\* the genesis row with its own hash as prev_hash
GenesisInsertSelfLinked(rows, id) ==
  InsertLedger(rows, id, "GENESIS", GenesisPayload, GenesisHash, GenesisHash)

\* INSERT INTO ledger_events ... VALUES ('GENESIS', ..., '0', ...)
GenesisInsert(rows, id) ==
  InsertLedger(rows, id, "GENESIS", GenesisPayload, "0", GenesisHash)

\* Runs of init.sql, like idle workers, are interchangeable: of those that
\* have not begun, the first in the list begins
FirstIdle(ids, pcs, p) ==
  \E i \in 1..Len(ids) :
    /\ ids[i] = p
    /\ \A j \in 1..(i - 1) : pcs[ids[j]] # "idle"

\* IF NOT EXISTS (SELECT 1 FROM ledger_events)
BootCheck(b) ==
  /\ boot[b] = "idle"
  /\ FirstIdle(BootIds, boot, b)
  /\ boot' = [boot EXCEPT ![b] = IF ledger = << >> THEN "insert" ELSE "done"]
  /\ UNCHANGED << ledger, ledgerSeq, locations, location_state, weather_snapshots,
                  queue, api, wk, audit, cmds, overlapped, tampered, canon >>

\* the INSERT of the block
BootInsert(b) ==
  /\ boot[b] = "insert"
  /\ ledger' = GenesisInsert(ledger, ledgerSeq)
  /\ ledgerSeq' = ledgerSeq + 1
  /\ boot' = [boot EXCEPT ![b] = "done"]
  /\ UNCHANGED << locations, location_state, weather_snapshots, queue, api, wk,
                  audit, cmds, overlapped, tampered, canon >>

(***************************************************************************)
(* The API service                                                         *)
(***************************************************************************)
\* the row `returning id, name, lat, lon, is_active` gives
LocRow(id) ==
  JObj(<< << "id", JStr(id) >>, << "name", JStr(LocName(id)) >>,
          << "lat", JNum(LocLat(id)) >>, << "lon", JNum(LocLon(id)) >>,
          << "is_active", JBool(TRUE) >> >>)

\* the payloadObj the two commands pass to appendLedgerEvent
CmdPayload(eventType, id) ==
  IF eventType = "CMD_LOCATION_ADD"
  THEN JObj(<< << "location", LocRow(id) >> >>)
  ELSE JObj(<< << "locationId", JStr(id) >> >>)

\* POST /api/cmd/locations, to its first await inside appendLedgerEvent:
\* the location row is inserted
ApiCreate(a) ==
  /\ api[a].pc = "idle"
  /\ cmds < MaxCmds
  /\ Cardinality(locations) < Len(LocIds)
  /\ LET id == LocIds[Cardinality(locations) + 1]
     IN /\ locations' = locations \cup {id}
        /\ api' = [api EXCEPT ![a] =
                     [ApiIdle EXCEPT !.pc = "append_read", !.loc = id,
                                     !.eventType = "CMD_LOCATION_ADD"]]
  /\ cmds' = cmds + 1
  /\ UNCHANGED << ledger, ledgerSeq, location_state, weather_snapshots, queue, wk,
                  boot, audit, overlapped, tampered, canon >>

\* the refresh command without the lookup of the location
ApiRefreshNoCheck(a, id) ==
  /\ api[a].pc = "idle"
  /\ cmds < MaxCmds
  /\ api' = [api EXCEPT ![a] =
               [ApiIdle EXCEPT !.pc = "append_read", !.loc = id,
                               !.eventType = "CMD_LOCATION_REFRESH"]]
  /\ cmds' = cmds + 1
  /\ UNCHANGED << ledger, ledgerSeq, locations, location_state, weather_snapshots,
                  queue, wk, boot, audit, overlapped, tampered, canon >>

\* POST /api/cmd/locations/:id/refresh, to its first await inside
\* appendLedgerEvent: 404 when no active location has the id
ApiRefresh(a, id) ==
  /\ api[a].pc = "idle"
  /\ cmds < MaxCmds
  /\ api' = [api EXCEPT ![a] =
               IF id \in locations
               THEN [ApiIdle EXCEPT !.pc = "append_read", !.loc = id,
                                    !.eventType = "CMD_LOCATION_REFRESH"]
               ELSE ApiDone("404")]
  /\ cmds' = cmds + 1
  /\ UNCHANGED << ledger, ledgerSeq, locations, location_state, weather_snapshots,
                  queue, wk, boot, audit, overlapped, tampered, canon >>

\* a handler that enqueues first: after the select it goes to queue.add and
\* the insert is left out
ApiAppendReadEnqueueFirst(a) ==
  /\ api[a].pc = "append_read"
  /\ api' = [api EXCEPT ![a] = [@ EXCEPT !.pc = "enqueue"]]
  /\ UNCHANGED << ledger, ledgerSeq, locations, location_state, weather_snapshots,
                  queue, wk, boot, audit, cmds, overlapped, tampered, canon >>

\* appendLedgerEvent, the select: last.rows[0].event_hash throws a TypeError
\* on an empty table and the request ends
ApiAppendRead(a) ==
  /\ api[a].pc = "append_read"
  /\ api' = [api EXCEPT ![a] =
               IF LastRows(ledger) = << >> THEN ApiDone("threw")
               ELSE [@ EXCEPT !.pc = "append_insert",
                              !.prevHash = LastRows(ledger)[1].event_hash,
                              !.eventHash =
                                AppendHash(LastRows(ledger)[1].event_hash,
                                           api[a].eventType,
                                           CmdPayload(api[a].eventType, api[a].loc))]]
  /\ overlapped' = (overlapped \/ (ledger # << >> /\ AppendInFlight(a)))
  /\ UNCHANGED << ledger, ledgerSeq, locations, location_state, weather_snapshots,
                  queue, wk, boot, audit, cmds, tampered, canon >>

\* appendLedgerEvent, the insert: a rejected insert throws and the request
\* ends
ApiAppendInsert(a) ==
  /\ api[a].pc = "append_insert"
  /\ ledger' = InsertLedger(ledger, ledgerSeq, api[a].eventType,
                            CmdPayload(api[a].eventType, api[a].loc),
                            api[a].prevHash, api[a].eventHash)
  /\ ledgerSeq' = ledgerSeq + 1
  /\ api' = [api EXCEPT ![a] =
               IF HashTaken(ledger, api[a].eventHash) THEN ApiDone("threw")
               ELSE [@ EXCEPT !.pc = "enqueue"]]
  /\ UNCHANGED << locations, location_state, weather_snapshots, queue, wk, boot,
                  audit, cmds, overlapped, tampered, canon >>

\* queue.add("refresh-location", { locationId }) and the response
ApiEnqueue(a) ==
  /\ api[a].pc = "enqueue"
  /\ queue' = Append(queue, api[a].loc)
  /\ api' = [api EXCEPT ![a] = ApiDone("ok")]
  /\ UNCHANGED << ledger, ledgerSeq, locations, location_state, weather_snapshots,
                  wk, boot, audit, cmds, overlapped, tampered, canon >>

(***************************************************************************)
(* The worker service: one refresh-location job                            *)
(***************************************************************************)
\* tempC, windMs, rain1hMm as the handler reads them from the answer
ReadTempC(raw) == Nullish(Get(Get(raw, "main"), "temp"), JNull)
ReadWindMs(raw) == Nullish(Get(Get(raw, "wind"), "speed"), JNum(0))
ReadRain1hMm(raw) == Nullish(Get(Get(raw, "rain"), "1h"), JNum(0))
Pack(raw) == decideRisk(ReadTempC(raw), ReadWindMs(raw), ReadRain1hMm(raw))

\* the payload of the DECISION_WEATHER_RISK event
DecisionPayload(id, raw) ==
  JObj(<< << "location",
             JObj(<< << "id", JStr(id) >>, << "name", JStr(LocName(id)) >>,
                     << "lat", JNum(LocLat(id)) >>, << "lon", JNum(LocLon(id)) >> >>) >>,
          << "decision", JStr(Pack(raw).decision) >>,
          << "applied_rule", Pack(raw).applied_rule >>,
          << "raw_weather", raw >> >>)

\* canonical and eventHash of the worker's appendLedgerEvent
WorkerAppendHash(prevHash, eventType, payloadObj) ==
  sha256Hex(prevHash \o "\n" \o
            stableStringify(JObj(<< << "event_type", JStr(eventType) >>,
                                    << "payload", payloadObj >> >>)))

\* a row of location_state or weather_snapshots: the parameters
\* [locationId, decision, applied_rule, raw_weather, ledger_hash] as stored
ProjectionRow(id, decision, appliedRule, rawWeather, ledgerHash) ==
  [location_id |-> id, decision |-> decision, applied_rule |-> ToJsonb(appliedRule),
   raw_weather |-> ToJsonb(rawWeather), ledger_hash |-> ledgerHash]

\* the row the job hands to applyProjections
JobRow(job) ==
  ProjectionRow(job.loc, Pack(job.raw).decision, Pack(job.raw).applied_rule,
                job.raw, job.eventHash)

\* insert into location_state ... on conflict (location_id) do update
UpsertState(rows, row) ==
  {r \in rows : r.location_id # row.location_id} \cup {row}

\* insert into weather_snapshots
InsertSnapshot(rows, row) == Append(rows, row)

\* The worker takes the oldest job, finds its location and the sensor
\* answers.  (Lookup and fetch are awaits of their own; no step of the
\* system removes or deactivates a location and the fetch touches no state
\* of the system, so they are taken with the first step.)
WorkerStart(w, raw) ==
  /\ wk[w].pc = "idle"
  /\ FirstIdle(WorkerIds, [x \in Workers |-> wk[x].pc], w)
  /\ queue # << >>
  /\ Head(queue) \in locations
  /\ queue' = Tail(queue)
  /\ wk' = [wk EXCEPT ![w] = [WkIdle EXCEPT !.pc = "append_read",
                                            !.loc = Head(queue), !.raw = raw]]
  /\ UNCHANGED << ledger, ledgerSeq, locations, location_state, weather_snapshots,
                  api, boot, audit, cmds, overlapped, tampered, canon >>

\* The worker takes the oldest job and no active location has its id: the
\* handler throws "location not found / inactive"
WorkerNotFound(w) ==
  /\ wk[w].pc = "idle"
  /\ FirstIdle(WorkerIds, [x \in Workers |-> wk[x].pc], w)
  /\ queue # << >>
  /\ Head(queue) \notin locations
  /\ queue' = Tail(queue)
  /\ wk' = [wk EXCEPT ![w] = WkDone("failed: location not found / inactive")]
  /\ UNCHANGED << ledger, ledgerSeq, locations, location_state, weather_snapshots,
                  api, boot, audit, cmds, overlapped, tampered, canon >>

\* a failed fetch taken for an answer: the job goes on with the error body
WorkerFetchFailIgnored(w) ==
  /\ wk[w].pc = "idle"
  /\ FirstIdle(WorkerIds, [x \in Workers |-> wk[x].pc], w)
  /\ queue # << >>
  /\ Head(queue) \in locations
  /\ queue' = Tail(queue)
  /\ wk' = [wk EXCEPT ![w] =
              [WkIdle EXCEPT !.pc = "append_read", !.loc = Head(queue),
                             !.raw = JObj(<< << "message", JStr("owm_http_500") >> >>)]]
  /\ UNCHANGED << ledger, ledgerSeq, locations, location_state, weather_snapshots,
                  api, boot, audit, cmds, overlapped, tampered, canon >>

\* The worker takes the oldest job, finds its location, and fetchOpenWeather
\* throws (HTTP status not ok, network error): the job fails before its
\* append
WorkerFetchFail(w) ==
  /\ wk[w].pc = "idle"
  /\ FirstIdle(WorkerIds, [x \in Workers |-> wk[x].pc], w)
  /\ queue # << >>
  /\ Head(queue) \in locations
  /\ queue' = Tail(queue)
  /\ wk' = [wk EXCEPT ![w] = WkDone("failed: fetch")]
  /\ UNCHANGED << ledger, ledgerSeq, locations, location_state, weather_snapshots,
                  api, boot, audit, cmds, overlapped, tampered, canon >>

\* appendLedgerEvent of the worker, the select
WorkerAppendRead(w) ==
  /\ wk[w].pc = "append_read"
  /\ wk' = [wk EXCEPT ![w] =
              IF LastRows(ledger) = << >> THEN WkDone("failed: append")
              ELSE [@ EXCEPT !.pc = "append_insert",
                             !.prevHash = LastRows(ledger)[1].event_hash,
                             !.eventHash =
                               WorkerAppendHash(LastRows(ledger)[1].event_hash,
                                                "DECISION_WEATHER_RISK",
                                                DecisionPayload(wk[w].loc, wk[w].raw))]]
  /\ overlapped' = (overlapped \/ (ledger # << >> /\ AppendInFlight(w)))
  /\ UNCHANGED << ledger, ledgerSeq, locations, location_state, weather_snapshots,
                  queue, api, boot, audit, cmds, tampered, canon >>

\* the insert not awaited: the handler goes on to applyProjections before
\* the row is in the table
WorkerAppendInsertUnawaited(w) ==
  /\ wk[w].pc = "append_insert"
  /\ wk' = [wk EXCEPT ![w] = [@ EXCEPT !.pc = "proj_state"]]
  /\ UNCHANGED << ledger, ledgerSeq, locations, location_state, weather_snapshots,
                  queue, api, boot, audit, cmds, overlapped, tampered, canon >>

\* appendLedgerEvent of the worker, the insert: a rejected insert throws and
\* the job fails
WorkerAppendInsert(w) ==
  /\ wk[w].pc = "append_insert"
  /\ ledger' = InsertLedger(ledger, ledgerSeq, "DECISION_WEATHER_RISK",
                            DecisionPayload(wk[w].loc, wk[w].raw),
                            wk[w].prevHash, wk[w].eventHash)
  /\ ledgerSeq' = ledgerSeq + 1
  /\ wk' = [wk EXCEPT ![w] =
              IF HashTaken(ledger, wk[w].eventHash) THEN WkDone("failed: append")
              ELSE [@ EXCEPT !.pc = "proj_state"]]
  /\ UNCHANGED << locations, location_state, weather_snapshots, queue, api, boot,
                  audit, cmds, overlapped, tampered, canon >>

\* applyProjections, the first statement
WorkerProjState(w) ==
  /\ wk[w].pc = "proj_state"
  /\ location_state' = UpsertState(location_state, JobRow(wk[w]))
  /\ wk' = [wk EXCEPT ![w] = [@ EXCEPT !.pc = "proj_snap"]]
  /\ UNCHANGED << ledger, ledgerSeq, locations, weather_snapshots, queue, api, boot,
                  audit, cmds, overlapped, tampered, canon >>

\* applyProjections, the second statement, and the job completes
WorkerProjSnap(w) ==
  /\ wk[w].pc = "proj_snap"
  /\ weather_snapshots' = InsertSnapshot(weather_snapshots, JobRow(wk[w]))
  /\ wk' = [wk EXCEPT ![w] = WkDone("completed")]
  /\ UNCHANGED << ledger, ledgerSeq, locations, location_state, queue, api, boot,
                  audit, cmds, overlapped, tampered, canon >>

\* pool.query rejects in applyProjections (the connection is lost, the
\* statement fails): the statement writes nothing and the job fails
WorkerProjFail(w) ==
  /\ wk[w].pc \in {"proj_state", "proj_snap"}
  /\ wk' = [wk EXCEPT ![w] = WkDone("failed: projection")]
  /\ UNCHANGED << ledger, ledgerSeq, locations, location_state, weather_snapshots,
                  queue, api, boot, audit, cmds, overlapped, tampered, canon >>

(***************************************************************************)
(* GET /api/read/audit/verify                                              *)
(***************************************************************************)
\* canonical and computed of the verifier, for a stored row; e.payload is
\* the column as the driver read it
VerifyComputed(e) ==
  sha256Hex(e.prev_hash \o "\n" \o
            stableStringify(JObj(<< << "event_type", JStr(e.event_type) >>,
                                    << "payload", PgRead(e.payload) >> >>)))

VerifyError(e, error) == [id |-> e.id, error |-> error]

\* one pass of the loop with `else if` between the checks: a row with a
\* hash mismatch is not examined further
RowErrorsFirstOnly(rows, i) ==
  IF VerifyComputed(rows[i]) # rows[i].event_hash
  THEN << VerifyError(rows[i], "hash_mismatch") >>
  ELSE IF i = 1
       THEN IF rows[i].prev_hash # "0"
            THEN << VerifyError(rows[i], "genesis_prev_hash_not_zero") >> ELSE << >>
       ELSE IF rows[i].prev_hash # rows[i - 1].event_hash
            THEN << VerifyError(rows[i], "prev_hash_link_broken") >> ELSE << >>

\* the errors one pass of the loop pushes, for row i
RowErrors(rows, i) ==
  (IF VerifyComputed(rows[i]) # rows[i].event_hash
   THEN << VerifyError(rows[i], "hash_mismatch") >> ELSE << >>)
  \o
  (IF i = 1
   THEN IF rows[i].prev_hash # "0"
        THEN << VerifyError(rows[i], "genesis_prev_hash_not_zero") >> ELSE << >>
   ELSE IF rows[i].prev_hash # rows[i - 1].event_hash
        THEN << VerifyError(rows[i], "prev_hash_link_broken") >> ELSE << >>)

RECURSIVE VerifyErrors(_, _)
VerifyErrors(rows, n) ==
  IF n = 0 THEN << >> ELSE VerifyErrors(rows, n - 1) \o RowErrors(rows, n)

\* one pass of the loop leaves `ok` as it is: no branch sets ok = false
RowOk(rows, i) ==
  /\ VerifyComputed(rows[i]) = rows[i].event_hash
  /\ IF i = 1 THEN rows[i].prev_hash = "0"
     ELSE rows[i].prev_hash = rows[i - 1].event_hash

\* the flag `ok` after the first n passes of the loop
RECURSIVE VerifyOk(_, _)
VerifyOk(rows, n) ==
  IF n = 0 THEN TRUE ELSE VerifyOk(rows, n - 1) /\ RowOk(rows, n)

\* the response { ok, count, errors } for the rows the select returns
Verify(rows) ==
  [ok |-> VerifyOk(rows, Len(rows)), count |-> Len(rows),
   errors |-> VerifyErrors(rows, Len(rows))]

\* a verifier that repairs: it rewrites each event_hash that does not match
\* to the hash it computed
AuditRepair ==
  /\ audit' = << Verify(ledger) >>
  /\ ledger' = [i \in 1..Len(ledger) |->
                  [ledger[i] EXCEPT !.event_hash = VerifyComputed(ledger[i])]]
  /\ UNCHANGED << ledgerSeq, locations, location_state, weather_snapshots,
                  queue, api, wk, boot, cmds, overlapped, tampered, canon >>

\* the handler: one select, the loop, the response
Audit ==
  /\ audit' = << Verify(ledger) >>
  /\ UNCHANGED << ledger, ledgerSeq, locations, location_state, weather_snapshots,
                  queue, api, wk, boot, cmds, overlapped, tampered, canon >>

(***************************************************************************)
(* The system: the genesis block, the commands and the jobs, interleaved   *)
(***************************************************************************)
Next ==
  \/ \E b \in BootProcs : BootCheck(b)
  \/ \E b \in BootProcs : BootInsert(b)
  \/ \E a \in ApiProcs : ApiCreate(a)
  \/ \E a \in ApiProcs : \E i \in 1..Len(LocIds) : ApiRefresh(a, LocIds[i])
  \/ \E a \in ApiProcs : ApiAppendRead(a)
  \/ \E a \in ApiProcs : ApiAppendInsert(a)
  \/ \E a \in ApiProcs : ApiEnqueue(a)
  \/ \E w \in Workers : \E raw \in Readings : WorkerStart(w, raw)
  \/ \E w \in Workers : WorkerFetchFail(w)
  \/ \E w \in Workers : WorkerAppendRead(w)
  \/ \E w \in Workers : WorkerAppendInsert(w)
  \/ \E w \in Workers : WorkerProjState(w)
  \/ \E w \in Workers : WorkerProjSnap(w)
  \/ \E w \in Workers : WorkerProjFail(w)

Spec == Init /\ [][Next]_vars

(***************************************************************************)
(* The verifier on a ledger changed behind the system's back: one command  *)
(* or job at a time builds the ledger, then one stored field of one row is *)
(* overwritten (an UPDATE no code of the system issues), and the audit     *)
(* endpoint is then called.                                                *)
(***************************************************************************)
\* payloads and hashes an UPDATE may write
TamperPayloads ==
  { ToJsonb(CmdPayload("CMD_LOCATION_REFRESH", "L2")),
    ToJsonb(DecisionPayload("L1", RawCalm)),
    JObj(<< >>) }
TamperHashes == { sha256Hex("forged"), "0" }

\* the stored value with digits beyond a double's precision appended to
\* each of its numbers
RECURSIVE Perturb(_)
Perturb(v) ==
  CASE v.t = "num" -> JNumeric(v.n, 1)
    [] v.t = "arr" -> JArr([i \in 1..Len(v.a) |-> Perturb(v.a[i])])
    [] v.t = "obj" -> JObj([i \in 1..Len(v.o) |-> << v.o[i][1], Perturb(v.o[i][2]) >>])
    [] OTHER -> v

TamperPayload(i, p) ==
  /\ tampered = 0
  /\ i \in 1..Len(ledger)
  /\ Verify(ledger).ok
  /\ p # ledger[i].payload
  /\ ledger' = [ledger EXCEPT ![i].payload = p]
  /\ tampered' = i
  /\ UNCHANGED << ledgerSeq, locations, location_state, weather_snapshots, queue,
                  api, wk, boot, audit, cmds, overlapped, canon >>

TamperHash(i, h) ==
  /\ tampered = 0
  /\ i \in 1..Len(ledger)
  /\ Verify(ledger).ok
  /\ ~HashTaken(ledger, h)
  /\ ledger' = [ledger EXCEPT ![i].event_hash = h]
  /\ tampered' = i
  /\ UNCHANGED << ledgerSeq, locations, location_state, weather_snapshots, queue,
                  api, wk, boot, audit, cmds, overlapped, canon >>

AuditWorker == WorkerIds[1]

\* no run of init.sql, command or job is under way
Quiet ==
  /\ \A b \in BootProcs : boot[b] # "insert"
  /\ \A a \in ApiProcs : api[a].pc = "idle"
  /\ \A w \in Workers : wk[w].pc = "idle"

AuditNext ==
  \/ /\ tampered = 0
     /\ Quiet
     /\ \/ \E b \in BootProcs : BootCheck(b)
        \/ \E a \in ApiProcs : ApiCreate(a)
        \/ \E a \in ApiProcs : \E i \in 1..Len(LocIds) : ApiRefresh(a, LocIds[i])
        \/ \E raw \in Readings : WorkerStart(AuditWorker, raw)
  \/ /\ tampered = 0
     /\ \/ \E b \in BootProcs : BootInsert(b)
        \/ \E a \in ApiProcs : ApiAppendRead(a) \/ ApiAppendInsert(a) \/ ApiEnqueue(a)
        \/ WorkerAppendRead(AuditWorker)
        \/ WorkerAppendInsert(AuditWorker)
        \/ WorkerProjState(AuditWorker)
        \/ WorkerProjSnap(AuditWorker)
  \/ /\ Quiet
     /\ \E i \in 1..Len(ledger) :
          \/ \E p \in TamperPayloads \cup {Perturb(ledger[i].payload)} :
                TamperPayload(i, p)
          \/ \E h \in TamperHashes : TamperHash(i, h)
  \/ /\ tampered # 0
     /\ Audit

AuditSpec == Init /\ [][AuditNext]_vars

(***************************************************************************)
(* applyProjections as a function of its arguments: it is applied to       *)
(* events drawn from a small set, an event possibly more than once (a      *)
(* redelivery).  Both statements run; the locations exist.                 *)
(***************************************************************************)
ProjEvents ==
  { [loc |-> "L1", raw |-> RawCalm, eventHash |-> sha256Hex("e1")],
    [loc |-> "L1", raw |-> RawStorm, eventHash |-> sha256Hex("e2")],
    [loc |-> "L2", raw |-> RawCalm, eventHash |-> sha256Hex("e3")],
    [loc |-> "L2", raw |-> RawStorm, eventHash |-> sha256Hex("e4")] }

applyProjections(e) ==
  /\ Len(weather_snapshots) < MaxApply
  /\ location_state' = UpsertState(location_state, JobRow(e))
  /\ weather_snapshots' = InsertSnapshot(weather_snapshots, JobRow(e))
  /\ UNCHANGED << ledger, ledgerSeq, locations, queue, api, wk, boot, audit, cmds,
                  overlapped, tampered, canon >>

ProjInit ==
  /\ ledger = << >>
  /\ ledgerSeq = 1
  /\ locations = {LocIds[i] : i \in 1..Len(LocIds)}
  /\ location_state = {}
  /\ weather_snapshots = << >>
  /\ queue = << >>
  /\ api = [a \in ApiProcs |-> ApiIdle]
  /\ wk = [w \in Workers |-> WkIdle]
  /\ boot = [b \in BootProcs |-> "idle"]
  /\ audit = << >>
  /\ cmds = 0
  /\ overlapped = FALSE
  /\ tampered = 0
  /\ canon = << >>

ProjNext == \E e \in ProjEvents : applyProjections(e)

ProjSpec == ProjInit /\ [][ProjNext]_vars

(***************************************************************************)
(* Refresh commands and refresh jobs for any id, of a location or of none: *)
(* the ledger holds its genesis, one location exists, commands arrive for  *)
(* both ids and jobs are put in the queue from outside as well (the queue  *)
(* is a Redis list any client can add to).                                 *)
(***************************************************************************)
ForeignJob(id) ==
  /\ cmds < MaxCmds
  /\ queue' = Append(queue, id)
  /\ cmds' = cmds + 1
  /\ UNCHANGED << ledger, ledgerSeq, locations, location_state, weather_snapshots,
                  api, wk, boot, audit, overlapped, tampered, canon >>

JobInit ==
  /\ ledger = GenesisInsert(<< >>, 1)
  /\ ledgerSeq = 2
  /\ locations = {LocIds[1]}
  /\ location_state = {}
  /\ weather_snapshots = << >>
  /\ queue = << >>
  /\ api = [a \in ApiProcs |-> ApiIdle]
  /\ wk = [w \in Workers |-> WkIdle]
  /\ boot = [b \in BootProcs |-> "done"]
  /\ audit = << >>
  /\ cmds = 0
  /\ overlapped = FALSE
  /\ tampered = 0
  /\ canon = << >>

JobNext ==
  \/ \E a \in ApiProcs : \E i \in 1..Len(LocIds) : ApiRefresh(a, LocIds[i])
  \/ \E a \in ApiProcs : ApiAppendRead(a)
  \/ \E a \in ApiProcs : ApiAppendInsert(a)
  \/ \E a \in ApiProcs : ApiEnqueue(a)
  \/ \E i \in 1..Len(LocIds) : ForeignJob(LocIds[i])
  \/ \E w \in Workers : \E raw \in Readings : WorkerStart(w, raw)
  \/ \E w \in Workers : WorkerNotFound(w)
  \/ \E w \in Workers : WorkerFetchFail(w)
  \/ \E w \in Workers : WorkerAppendRead(w)
  \/ \E w \in Workers : WorkerAppendInsert(w)
  \/ \E w \in Workers : WorkerProjState(w)
  \/ \E w \in Workers : WorkerProjSnap(w)

JobSpec == JobInit /\ [][JobNext]_vars

(***************************************************************************)
(* One refresh job on every answer of the sensor around the thresholds of  *)
(* the rules, with and without a temperature: the ledger holds its         *)
(* genesis, the location exists, its job waits in the queue.               *)
(***************************************************************************)
\* how far from a threshold the readings go
MaxDelta == 1

Around(thresholds) ==
  {t + d : t \in thresholds, d \in 0..MaxDelta} \cup
  {t - d : t \in thresholds, d \in 0..MaxDelta}

RiskRaw(tempC, windMs, rain1hMm) ==
  JObj(<< << "main", JObj(<< << "temp", JNum(tempC) >> >>) >>,
          << "wind", JObj(<< << "speed", JNum(windMs) >> >>) >>,
          << "rain", JObj(<< << "1h", JNum(rain1hMm) >> >>) >> >>)

\* an answer without main.temp
RiskRawNoTemp(windMs, rain1hMm) ==
  JObj(<< << "wind", JObj(<< << "speed", JNum(windMs) >> >>) >>,
          << "rain", JObj(<< << "1h", JNum(rain1hMm) >> >>) >> >>)

RiskReadings ==
  {RiskRaw(t, w, r) : t \in Around({-3, 2, 33, 38}), w \in Around({12, 20}),
                      r \in Around({8, 20})}
  \cup {RiskRawNoTemp(w, r) : w \in Around({12, 20}), r \in Around({8, 20})}

RiskInit ==
  /\ ledger = GenesisInsert(<< >>, 1)
  /\ ledgerSeq = 2
  /\ locations = {LocIds[1]}
  /\ location_state = {}
  /\ weather_snapshots = << >>
  /\ queue = << LocIds[1] >>
  /\ api = [a \in ApiProcs |-> ApiIdle]
  /\ wk = [w \in Workers |-> WkIdle]
  /\ boot = [b \in BootProcs |-> "done"]
  /\ audit = << >>
  /\ cmds = 0
  /\ overlapped = FALSE
  /\ tampered = 0
  /\ canon = << >>

RiskNext ==
  \/ \E raw \in RiskReadings : WorkerStart(AuditWorker, raw)
  \/ WorkerAppendRead(AuditWorker)
  \/ WorkerAppendInsert(AuditWorker)
  \/ WorkerProjState(AuditWorker)
  \/ WorkerProjSnap(AuditWorker)

RiskSpec == RiskInit /\ [][RiskNext]_vars

(***************************************************************************)
(* The verifier on arbitrary contents of ledger_events: rows written from  *)
(* outside (INSERTs no code of the system issues), any of their fields     *)
(* wrong or right, and the audit endpoint called at any time.  The table's *)
(* constraints hold: ids ascend, event_hash is unique.                     *)
(***************************************************************************)
\* rows ledger_events holds at most in CorruptSpec
MaxRows == 2

CorruptPayloads ==
  { GenesisPayload, ToJsonb(CmdPayload("CMD_LOCATION_REFRESH", "L1")) }

\* prev_hash values to write: the sentinel, the hash of the row before, a
\* hash of no row
CorruptPrevHashes(rows) ==
  {"0", sha256Hex("forged")} \cup {LastRows(rows)[i].event_hash : i \in 1..Len(LastRows(rows))}

\* event_hash values to write: the hash the verifier computes for the row,
\* and two hashes of nothing
CorruptHashes(payload, prevHash) ==
  { VerifyComputed(LedgerRow(0, "GENESIS", payload, prevHash, "")),
    sha256Hex("forged"), sha256Hex("forged2") }

CorruptInsert(payload, prevHash, eventHash) ==
  /\ Len(ledger) < MaxRows
  /\ ~HashTaken(ledger, eventHash)
  /\ ledger' = Append(ledger, LedgerRow(ledgerSeq, "GENESIS", payload, prevHash, eventHash))
  /\ ledgerSeq' = ledgerSeq + 1
  /\ UNCHANGED << locations, location_state, weather_snapshots, queue, api, wk, boot,
                  audit, cmds, overlapped, tampered, canon >>

\* the projections hold what a completed job left
CorruptInit ==
  /\ ledger = << >>
  /\ ledgerSeq = 1
  /\ locations = {LocIds[1]}
  /\ location_state =
       {JobRow([loc |-> LocIds[1], raw |-> RawStorm, eventHash |-> sha256Hex("e1")])}
  /\ weather_snapshots =
       << JobRow([loc |-> LocIds[1], raw |-> RawStorm, eventHash |-> sha256Hex("e1")]) >>
  /\ queue = << >>
  /\ api = [a \in ApiProcs |-> ApiIdle]
  /\ wk = [w \in Workers |-> WkIdle]
  /\ boot = [b \in BootProcs |-> "done"]
  /\ audit = << >>
  /\ cmds = 0
  /\ overlapped = FALSE
  /\ tampered = 0
  /\ canon = << >>

CorruptNext ==
  \/ \E payload \in CorruptPayloads : \E prevHash \in CorruptPrevHashes(ledger) :
       \E eventHash \in CorruptHashes(payload, prevHash) :
         CorruptInsert(payload, prevHash, eventHash)
  \/ Audit

CorruptSpec == CorruptInit /\ [][CorruptNext]_vars

(***************************************************************************)
(* stableStringify as a function of its argument: it is called on two      *)
(* value trees drawn from a small set (scalars, arrays, objects with their *)
(* keys in every insertion order).                                         *)
(***************************************************************************)
\* elements of an array and members of an object at most
MaxCanonLen == 2

CanonAtoms == {JNull, JNonFinite, JNum(1), JStr("a")}
CanonMembers == {JNull, JNum(1)}
CanonKeys == {"id", "lat", "lon"}

CanonArrays ==
  {JArr(a) : a \in UNION {[1..n -> CanonAtoms] : n \in 0..MaxCanonLen}}

\* objects: every sequence of pairs with distinct keys
CanonObjects ==
  {JObj([i \in 1..Len(ks) |-> << ks[i], vs[i] >>]) :
     << ks, vs >> \in
       UNION {{<< k, v >> : k \in {f \in [1..n -> CanonKeys] :
                                     \A i, j \in 1..n : i # j => f[i] # f[j]},
                            v \in [1..n -> CanonMembers]} : n \in 0..MaxCanonLen}}

CanonValues == CanonAtoms \cup CanonArrays \cup CanonObjects

\* stableStringify(a) and stableStringify(b)
Canonicalize ==
  /\ canon # << >>
  /\ ~canon.done
  /\ canon' = [canon EXCEPT !.sa = stableStringify(canon.a),
                            !.sb = stableStringify(canon.b),
                            !.done = TRUE]
  /\ UNCHANGED << ledger, ledgerSeq, locations, location_state, weather_snapshots,
                  queue, api, wk, boot, audit, cmds, overlapped, tampered >>

CanonInit ==
  /\ ledger = << >>
  /\ ledgerSeq = 1
  /\ locations = {}
  /\ location_state = {}
  /\ weather_snapshots = << >>
  /\ queue = << >>
  /\ api = [a \in ApiProcs |-> ApiIdle]
  /\ wk = [w \in Workers |-> WkIdle]
  /\ boot = [b \in BootProcs |-> "idle"]
  /\ audit = << >>
  /\ cmds = 0
  /\ overlapped = FALSE
  /\ tampered = 0
  /\ canon \in {[a |-> x, b |-> y, sa |-> "", sb |-> "", done |-> FALSE] :
                  x \in CanonValues, y \in CanonValues}

CanonNext == Canonicalize

CanonSpec == CanonInit /\ [][CanonNext]_vars

(***************************************************************************)
(* Commands that race: the genesis block and one location are in place,    *)
(* two request handlers run at once, and the workers take the jobs.        *)
(***************************************************************************)
RaceApiProcs == {"a1", "a2"}

RaceInit ==
  /\ ledger = GenesisInsert(<< >>, 1)
  /\ ledgerSeq = 2
  /\ locations = {LocIds[1]}
  /\ location_state = {}
  /\ weather_snapshots = << >>
  /\ queue = << >>
  /\ api = [a \in RaceApiProcs |-> ApiIdle]
  /\ wk = [w \in Workers |-> WkIdle]
  /\ boot = [b \in BootProcs |-> "done"]
  /\ audit = << >>
  /\ cmds = 0
  /\ overlapped = FALSE
  /\ tampered = 0
  /\ canon = << >>

RaceNext ==
  \/ \E a \in RaceApiProcs : ApiCreate(a)
  \/ \E a \in RaceApiProcs : \E i \in 1..Len(LocIds) : ApiRefresh(a, LocIds[i])
  \/ \E a \in RaceApiProcs : ApiAppendRead(a)
  \/ \E a \in RaceApiProcs : ApiAppendInsert(a)
  \/ \E a \in RaceApiProcs : ApiEnqueue(a)
  \/ \E w \in Workers : \E raw \in Readings : WorkerStart(w, raw)
  \/ \E w \in Workers : WorkerFetchFail(w)
  \/ \E w \in Workers : WorkerAppendRead(w)
  \/ \E w \in Workers : WorkerAppendInsert(w)
  \/ \E w \in Workers : WorkerProjState(w)
  \/ \E w \in Workers : WorkerProjSnap(w)
  \/ \E w \in Workers : WorkerProjFail(w)

RaceSpec == RaceInit /\ [][RaceNext]_vars

(***************************************************************************)
(* Properties                                                              *)
(***************************************************************************)
IsDecision(e) == e.event_type = "DECISION_WEATHER_RISK"
DecisionEvents == SelectSeq(ledger, IsDecision)
\* the entity a DECISION_WEATHER_RISK event is about
EventEntity(e) == Get(Get(PgRead(e.payload), "location"), "id").s
SnapshotCount(h) ==
  Cardinality({i \in 1..Len(weather_snapshots) : weather_snapshots[i].ledger_hash = h})
GenesisCount ==
  Cardinality({i \in 1..Len(ledger) : ledger[i].event_type = "GENESIS"})

\* C1: the chain never forks under concurrent appends: no two ledger events
\* have the same prev_hash, and every event after the first has as prev_hash
\* the event_hash of the event with the immediately preceding id.
NoFork ==
  /\ \A i, j \in 1..Len(ledger) : i # j => ledger[i].prev_hash # ledger[j].prev_hash
  /\ \A i \in 2..Len(ledger) : ledger[i].prev_hash = ledger[i - 1].event_hash

\* C2: chain integrity: after the genesis bootstrap and appends none of which
\* overlapped another, the verifier answers ok = true, no errors, and the
\* number of ledger events as count.
ChainIntegrity ==
  ~overlapped =>
    Verify(ledger) = [ok |-> TRUE, count |-> Len(ledger), errors |-> << >>]

\* C2's case: genesis, a CMD_LOCATION_ADD and decisions appended one after
\* another
ChainIntegrityWitness ==
  /\ ~overlapped
  /\ Len(ledger) >= 4
  /\ \E i \in 1..Len(ledger) : ledger[i].event_type = "CMD_LOCATION_ADD"
  /\ \E i \in 1..Len(ledger) : IsDecision(ledger[i])

\* C3: tamper detection: once the stored payload or event_hash of one row i
\* of a ledger that verified was changed, the verifier answers ok = false
\* with a hash_mismatch error for row i or a prev_hash_link_broken error for
\* row i + 1.
TamperDetection ==
  (tampered # 0 /\ audit # << >>) =>
    /\ ~audit[1].ok
    /\ \E k \in 1..Len(audit[1].errors) :
         \/ audit[1].errors[k] = VerifyError(ledger[tampered], "hash_mismatch")
         \/ /\ tampered < Len(ledger)
            /\ audit[1].errors[k] =
                 VerifyError(ledger[tampered + 1], "prev_hash_link_broken")

\* C4: projection idempotence: applying applyProjections again for the event
\* last applied to its entity leaves exactly one weather_snapshots row with
\* the event's ledger_hash and leaves location_state as it was.
ProjectionIdempotence ==
  [][\A e \in ProjEvents :
       (/\ JobRow(e) \in location_state
        /\ SnapshotCount(e.eventHash) = 1
        /\ applyProjections(e))
       => /\ location_state' = location_state
          /\ Cardinality({i \in 1..Len(weather_snapshots') :
                            weather_snapshots'[i].ledger_hash = e.eventHash}) = 1]_vars

\* the row applyProjections writes for a stored DECISION_WEATHER_RISK event
ReplayRow(e) ==
  ProjectionRow(EventEntity(e),
                Get(PgRead(e.payload), "decision").s,
                Get(PgRead(e.payload), "applied_rule"),
                Get(PgRead(e.payload), "raw_weather"),
                e.event_hash)

\* location_state after applying the first n of the events to empty
\* projections
RECURSIVE ReplayState(_, _)
ReplayState(events, n) ==
  IF n = 0 THEN {}
  ELSE UpsertState(ReplayState(events, n - 1), ReplayRow(events[n]))

\* C5: replay equivalence: with no refresh job in flight, location_state and
\* weather_snapshots hold the rows that applying every DECISION_WEATHER_RISK
\* event in ascending id order to empty projections gives.
ReplayEquivalence ==
  (\A w \in Workers : wk[w].pc = "idle") =>
    /\ location_state = ReplayState(DecisionEvents, Len(DecisionEvents))
    /\ Len(weather_snapshots) = Len(DecisionEvents)
    /\ {weather_snapshots[i] : i \in 1..Len(weather_snapshots)}
         = {ReplayRow(DecisionEvents[i]) : i \in 1..Len(DecisionEvents)}

\* the DECISION_WEATHER_RISK events of an entity, in id order
EventsOf(id) ==
  LET Mine(e) == IsDecision(e) /\ EventEntity(e) = id
  IN SelectSeq(ledger, Mine)

\* C6: last-write-wins by ledger order: once the refresh jobs of an entity
\* have finished, each with both of its projection writes done, the entity's
\* location_state row carries the ledger_hash and the decision of the
\* entity's DECISION_WEATHER_RISK event with the greatest id.
LastWriteWins ==
  \A id \in locations :
    LET mine == EventsOf(id)
    IN (/\ mine # << >>
        /\ \A w \in Workers : wk[w].pc = "idle"
        /\ \A i \in 1..Len(mine) : SnapshotCount(mine[i].event_hash) = 1)
       => \E r \in location_state :
            /\ r.location_id = id
            /\ r.ledger_hash = mine[Len(mine)].event_hash
            /\ r.decision = Get(PgRead(mine[Len(mine)].payload), "decision").s

\* C7: genesis invariant: the first event of a non-empty ledger has
\* prev_hash "0" and event_type GENESIS, and a step of the bootstrap on a
\* non-empty ledger leaves the ledger unchanged.
GenesisInvariant ==
  /\ [](ledger # << >> =>
          ledger[1].prev_hash = "0" /\ ledger[1].event_type = "GENESIS")
  /\ [][(ledger # << >> /\ \E b \in BootProcs : BootCheck(b) \/ BootInsert(b))
          => ledger' = ledger]_vars

\* C7's case: the bootstrap ran a second time, on the ledger the first left
GenesisInvariantWitness ==
  /\ \A b \in BootProcs : boot[b] = "done"
  /\ ledger # << >>
  /\ ledgerSeq = Len(ledger) + 1

\* C8: bootstrap runs that interleave on an empty ledger leave exactly one
\* GENESIS event: there is never a second one, and when all runs are done
\* there is one.
SingleGenesis ==
  /\ GenesisCount <= 1
  /\ (\A b \in BootProcs : boot[b] = "done") => GenesisCount = 1

\* C8's case: two runs both passed the emptiness check and both inserted; the
\* second insert consumed an id and was rejected
SingleGenesisWitness ==
  /\ \A b \in BootProcs : boot[b] = "done"
  /\ Len(ledger) = 1
  /\ ledgerSeq = 3

\* C9: append conflict handling: an append whose insert is rejected because
\* the event_hash exists goes back to reading the latest hash (a retry).
ConflictRetried ==
  [][/\ \A w \in Workers :
          (HashTaken(ledger, wk[w].eventHash) /\ WorkerAppendInsert(w))
          => wk'[w].pc = "append_read"
     /\ \A a \in ApiProcs :
          (HashTaken(ledger, api[a].eventHash) /\ ApiAppendInsert(a))
          => api'[a].pc = "append_read"]_vars

\* some worker is inside applyProjections for the event with this hash
Applying(h) ==
  \E w \in Workers : wk[w].pc \in {"proj_state", "proj_snap"} /\ wk[w].eventHash = h

\* C10: projection application is all-or-nothing: once applyProjections has
\* ended, location_state holds no ledger_hash without a weather_snapshots
\* row, and no DECISION_WEATHER_RISK event whose job has ended is without
\* its weather_snapshots row.
ProjectionAllOrNothing ==
  /\ \A r \in location_state :
       ~Applying(r.ledger_hash) => SnapshotCount(r.ledger_hash) >= 1
  /\ \A i \in 1..Len(ledger) :
       (IsDecision(ledger[i]) /\ ~Applying(ledger[i].event_hash))
       => SnapshotCount(ledger[i].event_hash) >= 1

\* the anomalies of the rows: a hash_mismatch for every row whose recomputed
\* hash is not its event_hash, a genesis_prev_hash_not_zero when the first
\* row's prev_hash is not "0", a prev_hash_link_broken for every later row
\* whose prev_hash is not the event_hash of the row before
Anomalies(rows) ==
  {VerifyError(rows[i], "hash_mismatch") :
     i \in {j \in 1..Len(rows) : VerifyComputed(rows[j]) # rows[j].event_hash}}
  \cup
  {VerifyError(rows[i], "genesis_prev_hash_not_zero") :
     i \in {j \in 1..Len(rows) : j = 1 /\ rows[j].prev_hash # "0"}}
  \cup
  {VerifyError(rows[i], "prev_hash_link_broken") :
     i \in {j \in 2..Len(rows) : rows[j].prev_hash # rows[j - 1].event_hash}}

\* C11: the verifier never aborts early and reports every anomaly: for any
\* contents of the ledger its response has count equal to the number of
\* rows, errors holds each anomaly of the rows once and nothing else, and ok
\* is true exactly when errors is empty.
VerifierComplete ==
  [][Audit =>
       /\ audit'[1].count = Len(ledger)
       /\ {audit'[1].errors[k] : k \in 1..Len(audit'[1].errors)} = Anomalies(ledger)
       /\ Len(audit'[1].errors) = Cardinality(Anomalies(ledger))
       /\ audit'[1].ok = (audit'[1].errors = << >>)]_vars

\* C11's case: every row corrupted, the first in both ways, and all of it
\* reported
VerifierCompleteWitness ==
  /\ Len(ledger) = MaxRows
  /\ audit # << >>
  /\ audit[1].count = MaxRows
  /\ Len(audit[1].errors) = 2 * MaxRows
  /\ \A i \in 1..Len(ledger) : ~RowOk(ledger, i)

\* the entity a command or decision event names
EventSubject(e) ==
  IF e.event_type = "CMD_LOCATION_REFRESH"
  THEN Get(PgRead(e.payload), "locationId").s
  ELSE EventEntity(e)

\* C12: missing or inactive entity: a refresh command or a refresh job for
\* an id no active location has ends with an error (404 for the command,
\* a failed job) in the step that finds the location missing, with the
\* ledger and both projections unchanged; no ledger event and no projection
\* row ever names such an id.
NotFoundNoEffect ==
  /\ [](/\ \A i \in 2..Len(ledger) : EventSubject(ledger[i]) \in locations
        /\ \A r \in location_state : r.location_id \in locations
        /\ \A i \in 1..Len(weather_snapshots) :
             weather_snapshots[i].location_id \in locations)
  /\ [][/\ \A a \in ApiProcs : \A i \in 1..Len(LocIds) :
             (LocIds[i] \notin locations /\ ApiRefresh(a, LocIds[i]))
             => /\ api'[a] = ApiDone("404")
                /\ UNCHANGED << ledger, location_state, weather_snapshots, queue >>
        /\ \A w \in Workers :
             (wk[w].pc = "idle" /\ queue # << >> /\ Head(queue) \notin locations
              /\ wk'[w] # wk[w])
             => /\ wk'[w].pc = "idle"
                /\ wk'[w].res = "failed: location not found / inactive"
                /\ UNCHANGED << ledger, location_state, weather_snapshots >>]_vars

\* C12's case: a command for a missing id was answered 404 and a job for a
\* missing id failed; the ledger holds its genesis alone and the projections
\* are empty
NotFoundNoEffectWitness ==
  /\ \E a \in ApiProcs : api[a].res = "404"
  /\ \E w \in Workers : wk[w].res = "failed: location not found / inactive"
  /\ Len(ledger) = 1
  /\ location_state = {}

\* C13: sensor failure: when the fetch of a refresh job fails the job is
\* abandoned: the step in which it fails ends the job as failed and leaves
\* the ledger and both projections as they were, and no ledger event is
\* ever built from anything but an answer of the sensor.
SensorFailureAbandons ==
  /\ [](\A i \in 1..Len(ledger) :
          IsDecision(ledger[i])
          => \E raw \in Readings :
               Get(PgRead(ledger[i].payload), "raw_weather") = ToJsonb(raw))
  /\ [][\A w \in Workers :
          WorkerFetchFail(w)
          => /\ wk'[w] = WkDone("failed: fetch")
             /\ UNCHANGED << ledger, ledgerSeq, location_state, weather_snapshots >>]_vars

\* C13's case: a job for the existing location failed at its fetch; the
\* ledger holds its genesis alone and the projections are empty
SensorFailureAbandonsWitness ==
  /\ \E w \in Workers : wk[w].res = "failed: fetch"
  /\ \A w \in Workers : wk[w].pc = "idle"
  /\ queue = << >>
  /\ Len(ledger) = 1
  /\ location_state = {}
  /\ weather_snapshots = << >>

\* C14: the ledger is append-only and immutable: every step of the system
\* leaves every existing ledger event as it is and removes none (the ledger
\* before the step is a prefix of the ledger after it), and ids are strictly
\* increasing.
AppendOnly ==
  /\ [](\A i, j \in 1..Len(ledger) : i < j => ledger[i].id < ledger[j].id)
  /\ [][/\ Len(ledger') >= Len(ledger)
        /\ SubSeq(ledger', 1, Len(ledger)) = ledger]_vars

\* C14's case: commands and jobs appended events, and an insert was rejected
\* (its id stays unused)
AppendOnlyWitness ==
  /\ Len(ledger) >= 4
  /\ ledgerSeq > Len(ledger) + 1
  /\ \E i \in 1..Len(ledger) : IsDecision(ledger[i])

\* C15: the audit verifier is read-only: a run of verify, on a valid or a
\* corrupted ledger, leaves the ledger, the locations and both projections
\* unchanged.
VerifyReadOnly ==
  [][Audit => UNCHANGED << ledger, ledgerSeq, locations, location_state,
                           weather_snapshots >>]_vars

\* C15's case: verify has answered ok = false on a corrupted ledger, and the
\* rows of the ledger and of the projections are still there
VerifyReadOnlyWitness ==
  /\ audit # << >>
  /\ ~audit[1].ok
  /\ audit[1] = Verify(ledger)
  /\ ledger # << >>
  /\ location_state # {}
  /\ weather_snapshots # << >>

\* The rule table: per dimension the rules from the highest severity down,
\* each with the comparison and the threshold that match it
RuleTable ==
  << [dim |-> "rain", id |-> "RAIN_20MM_1H", severity |-> "CRITICAL",
      why |-> "rain_1h_mm>=20", cmp |-> ">=", th |-> 20],
     [dim |-> "rain", id |-> "RAIN_8MM_1H", severity |-> "ALERT",
      why |-> "rain_1h_mm>=8", cmp |-> ">=", th |-> 8],
     [dim |-> "wind", id |-> "WIND_20MS", severity |-> "CRITICAL",
      why |-> "wind_ms>=20", cmp |-> ">=", th |-> 20],
     [dim |-> "wind", id |-> "WIND_12MS", severity |-> "ALERT",
      why |-> "wind_ms>=12", cmp |-> ">=", th |-> 12],
     [dim |-> "heat", id |-> "TEMP_38C", severity |-> "CRITICAL",
      why |-> "temp_c>=38", cmp |-> ">=", th |-> 38],
     [dim |-> "heat", id |-> "TEMP_33C", severity |-> "ALERT",
      why |-> "temp_c>=33", cmp |-> ">=", th |-> 33],
     [dim |-> "cold", id |-> "TEMP_-3C", severity |-> "CRITICAL",
      why |-> "temp_c<=-3", cmp |-> "<=", th |-> -3],
     [dim |-> "cold", id |-> "TEMP_2C", severity |-> "ALERT",
      why |-> "temp_c<=2", cmp |-> "<=", th |-> 2] >>

\* the inputs, the rules and the decision a projection row records
RowInputs(r) == Get(r.applied_rule, "inputs")
RowRules(r) ==
  LET rules == Get(r.applied_rule, "rules").a
  IN [i \in 1..Len(rules) |->
        Rule(Get(rules[i], "id").s, Get(rules[i], "severity").s, Get(rules[i], "why").s)]
RowIsNumeric(r) ==
  /\ Get(RowInputs(r), "tempC").t = "num"
  /\ Get(RowInputs(r), "windMs").t = "num"
  /\ Get(RowInputs(r), "rain1hMm").t = "num"

\* the number a dimension of the table looks at
DimInput(r, dim) ==
  CASE dim = "rain" -> Get(RowInputs(r), "rain1hMm").n
    [] dim = "wind" -> Get(RowInputs(r), "windMs").n
    [] OTHER -> Get(RowInputs(r), "tempC").n

TableMatches(k, r) ==
  IF RuleTable[k].cmp = ">=" THEN DimInput(r, RuleTable[k].dim) >= RuleTable[k].th
  ELSE DimInput(r, RuleTable[k].dim) <= RuleTable[k].th

\* the rules of the table that win for the row's inputs: matching, and no
\* rule earlier in the same dimension matching
TableRules(r) ==
  {Rule(RuleTable[k].id, RuleTable[k].severity, RuleTable[k].why) :
     k \in {n \in 1..Len(RuleTable) :
              /\ TableMatches(n, r)
              /\ \A j \in 1..(n - 1) :
                   RuleTable[j].dim = RuleTable[n].dim => ~TableMatches(j, r)}}

TableDecision(r) ==
  IF \E x \in TableRules(r) : x.severity = "CRITICAL" THEN "CRITICAL"
  ELSE IF \E x \in TableRules(r) : x.severity = "ALERT" THEN "ALERT"
  ELSE "NORMAL"

\* C16: decideRisk agrees with the rule table for every numeric input: the
\* rules a job recorded are the winning rules of the table, each once and at
\* most one per dimension, and its decision is CRITICAL if one of them is
\* CRITICAL, else ALERT if one is ALERT, else NORMAL (NORMAL exactly when
\* there is none).
RuleTableAgreement ==
  \A i \in 1..Len(weather_snapshots) :
    LET r == weather_snapshots[i]
    IN RowIsNumeric(r) =>
         /\ {RowRules(r)[k] : k \in 1..Len(RowRules(r))} = TableRules(r)
         /\ Len(RowRules(r)) = Cardinality(TableRules(r))
         /\ \A j, k \in 1..Len(RuleTable) :
              (/\ j # k
               /\ RuleTable[j].dim = RuleTable[k].dim
               /\ \E x \in 1..Len(RowRules(r)) : RowRules(r)[x].id = RuleTable[j].id)
              => ~\E y \in 1..Len(RowRules(r)) : RowRules(r)[y].id = RuleTable[k].id
         /\ r.decision = TableDecision(r)
         /\ (r.decision = "NORMAL") = (RowRules(r) = << >>)

\* C16's case: a reading on the thresholds of rain (20), wind (12) and heat
\* (38) was decided: three rules, decision CRITICAL
RuleTableAgreementWitness ==
  \E i \in 1..Len(weather_snapshots) :
    LET r == weather_snapshots[i]
    IN /\ RowIsNumeric(r)
       /\ DimInput(r, "rain") = 20
       /\ DimInput(r, "wind") = 12
       /\ DimInput(r, "heat") = 38
       /\ Len(RowRules(r)) = 3
       /\ r.decision = "CRITICAL"

\* the UTF-16 code units of the characters of the rule ids
CharCode(c) ==
  CASE c = "-" -> 45 [] c = "0" -> 48 [] c = "1" -> 49 [] c = "2" -> 50
    [] c = "3" -> 51 [] c = "8" -> 56 [] c = "A" -> 65 [] c = "C" -> 67
    [] c = "D" -> 68 [] c = "E" -> 69 [] c = "H" -> 72 [] c = "I" -> 73
    [] c = "M" -> 77 [] c = "N" -> 78 [] c = "P" -> 80 [] c = "R" -> 82
    [] c = "S" -> 83 [] c = "T" -> 84 [] c = "W" -> 87 [] c = "_" -> 95

\* the characters of a rule id
RuleIdChars(id) ==
  CASE id = "RAIN_20MM_1H" -> << "R", "A", "I", "N", "_", "2", "0", "M", "M", "_", "1", "H" >>
    [] id = "RAIN_8MM_1H" -> << "R", "A", "I", "N", "_", "8", "M", "M", "_", "1", "H" >>
    [] id = "WIND_20MS" -> << "W", "I", "N", "D", "_", "2", "0", "M", "S" >>
    [] id = "WIND_12MS" -> << "W", "I", "N", "D", "_", "1", "2", "M", "S" >>
    [] id = "TEMP_38C" -> << "T", "E", "M", "P", "_", "3", "8", "C" >>
    [] id = "TEMP_33C" -> << "T", "E", "M", "P", "_", "3", "3", "C" >>
    [] id = "TEMP_-3C" -> << "T", "E", "M", "P", "_", "-", "3", "C" >>
    [] id = "TEMP_2C" -> << "T", "E", "M", "P", "_", "2", "C" >>

\* a is before b in lexicographic order of code units
RECURSIVE LexLess(_, _)
LexLess(a, b) ==
  IF b = << >> THEN FALSE
  ELSE IF a = << >> THEN TRUE
  ELSE IF CharCode(Head(a)) # CharCode(Head(b)) THEN CharCode(Head(a)) < CharCode(Head(b))
  ELSE LexLess(Tail(a), Tail(b))

\* C17: the rule list decideRisk returns is sorted ascending by rule id in
\* lexicographic order, for every input: in every recorded list each rule's
\* id is before the id of every later rule.
RulesSorted ==
  \A i \in 1..Len(weather_snapshots) :
    LET rules == RowRules(weather_snapshots[i])
    IN \A j, k \in 1..Len(rules) :
         j < k => LexLess(RuleIdChars(rules[j].id), RuleIdChars(rules[k].id))

\* C17's case: wind and heat both matched; the wind rule was pushed first
\* and the heat rule is first in the list
RulesSortedWitness ==
  \E i \in 1..Len(weather_snapshots) :
    LET rules == RowRules(weather_snapshots[i])
    IN /\ Len(rules) = 3
       /\ rules[1].id = "RAIN_8MM_1H"
       /\ rules[2].id = "TEMP_33C"
       /\ rules[3].id = "WIND_20MS"

\* C19: an append on an empty ledger uses the sentinel "0" as prev_hash and
\* goes on to its insert; it does not fail.
AppendOnEmptyUsesSentinel ==
  [][/\ \A a \in ApiProcs :
          (ledger = << >> /\ ApiAppendRead(a))
          => api'[a].pc = "append_insert" /\ api'[a].prevHash = "0"
     /\ \A w \in Workers :
          (ledger = << >> /\ WorkerAppendRead(w))
          => wk'[w].pc = "append_insert" /\ wk'[w].prevHash = "0"]_vars

\* C20: a missing temperature reading (tempC = null) never triggers a heat
\* or cold rule: no recorded rule list for a null tempC holds TEMP_38C,
\* TEMP_33C, TEMP_-3C or TEMP_2C.
MissingTempNoRule ==
  \A i \in 1..Len(weather_snapshots) :
    LET r == weather_snapshots[i]
    IN Get(RowInputs(r), "tempC").t = "null"
       => \A k \in 1..Len(RowRules(r)) :
            RowRules(r)[k].id \notin {"TEMP_38C", "TEMP_33C", "TEMP_-3C", "TEMP_2C"}

\* a value tree with its objects as sets of members: two trees are the same
\* up to the insertion order of keys when these are equal
RECURSIVE Unordered(_)
Unordered(v) ==
  CASE v.t = "obj" ->
         [t |-> "obj", m |-> {<< v.o[i][1], Unordered(v.o[i][2]) >> : i \in 1..Len(v.o)}]
    [] v.t = "arr" -> [t |-> "arr", a |-> [i \in 1..Len(v.a) |-> Unordered(v.a[i])]]
    [] OTHER -> v

\* b holds the elements of a in another order
Reordered(a, b) ==
  /\ Len(a) = Len(b)
  /\ a # b
  /\ \E p \in [1..Len(a) -> 1..Len(a)] :
       /\ \A i, j \in 1..Len(a) : i # j => p[i] # p[j]
       /\ \A i \in 1..Len(a) : b[i] = a[p[i]]

\* C18, as stated: two maps with the same key/value pairs inserted in
\* different orders encode to the same string, and two sequences with the
\* same elements in a different order encode differently.
CanonicalDeterminism ==
  (canon # << >> /\ canon.done) =>
    /\ Unordered(canon.a) = Unordered(canon.b) => canon.sa = canon.sb
    /\ (/\ canon.a.t = "arr"
        /\ canon.b.t = "arr"
        /\ Reordered(canon.a.a, canon.b.a))
       => canon.sa # canon.sb

\* C18, amended: two maps with the same key/value pairs inserted in
\* different orders encode to the same string, and two sequences with the
\* same elements in a different order encode differently when at some
\* position their elements encode differently.
CanonicalDeterminismAmended ==
  (canon # << >> /\ canon.done) =>
    /\ Unordered(canon.a) = Unordered(canon.b) => canon.sa = canon.sb
    /\ (/\ canon.a.t = "arr"
        /\ canon.b.t = "arr"
        /\ Reordered(canon.a.a, canon.b.a)
        /\ \E i \in 1..Len(canon.a.a) :
             stableStringify(canon.a.a[i]) # stableStringify(canon.b.a[i]))
       => canon.sa # canon.sb

\* C18's case: two objects with the same two members inserted in opposite
\* orders were encoded
CanonicalDeterminismWitness ==
  /\ canon # << >>
  /\ canon.done
  /\ canon.a.t = "obj"
  /\ Len(canon.a.o) = 2
  /\ canon.a # canon.b
  /\ Unordered(canon.a) = Unordered(canon.b)
  /\ canon.sa = canon.sb


\* C21: hash invariant: under any interleaving of the bootstrap and the
\* appends of the API and the workers, every ledger event has as event_hash
\* the hash the verifier computes from its stored prev_hash, event_type and
\* payload, so the verifier reports no hash_mismatch.
HashInvariant ==
  \A i \in 1..Len(ledger) :
    LET errors == RowErrors(ledger, i)
    IN /\ VerifyComputed(ledger[i]) = ledger[i].event_hash
       /\ \A k \in 1..Len(errors) : errors[k].error # "hash_mismatch"

\* C21's case: appends overlapped and the chain forked: two events written by
\* the API and a worker, or by two workers, carry the same prev_hash
HashInvariantWitness ==
  /\ overlapped
  /\ \E i, j \in 1..Len(ledger) :
       /\ i < j
       /\ ledger[i].prev_hash = ledger[j].prev_hash
       /\ ledger[i].event_type = "CMD_LOCATION_REFRESH"
       /\ IsDecision(ledger[j])


\* C22: event_hash is globally unique: no two ledger events have the same
\* event_hash, and of two appends that computed the same event_hash (the
\* same event type and payload on the same last hash) the one that inserts
\* second is rejected: its insert adds no row and its handler ends in error.
HashUnique ==
  /\ [](\A i, j \in 1..Len(ledger) :
          i # j => ledger[i].event_hash # ledger[j].event_hash)
  /\ [][/\ \A a \in DOMAIN api :
            (HashTaken(ledger, api[a].eventHash) /\ ApiAppendInsert(a))
            => ledger' = ledger /\ api'[a] = ApiDone("threw")
        /\ \A w \in DOMAIN wk :
            (HashTaken(ledger, wk[w].eventHash) /\ WorkerAppendInsert(w))
            => ledger' = ledger /\ wk'[w] = WkDone("failed: append")]_vars

\* C22's case: two refresh commands for the same location read the same last
\* hash; one insert committed and that request went on, the other insert
\* took an id, added no row, and its request ended in error
HashUniqueWitness ==
  /\ \E a, b \in DOMAIN api :
       /\ api[a].res = "threw"
       /\ api[b].res = "ok"
  /\ Cardinality({i \in 1..Len(ledger) :
                    ledger[i].event_type = "CMD_LOCATION_REFRESH"}) = 1
  /\ ledgerSeq = Len(ledger) + 2
  /\ cmds = 2


\* the ledger holds a DECISION_WEATHER_RISK event with the row's ledger_hash
\* as event_hash, whose payload names the row's location and decision
RefersToDecision(r) ==
  \E i \in 1..Len(ledger) :
    /\ IsDecision(ledger[i])
    /\ ledger[i].event_hash = r.ledger_hash
    /\ EventEntity(ledger[i]) = r.location_id
    /\ Get(PgRead(ledger[i].payload), "decision") = JStr(r.decision)

\* C23: every projection row refers to a recorded decision: each
\* location_state row and each weather_snapshots row carries the event_hash
\* of a DECISION_WEATHER_RISK event in the ledger that names the same entity
\* and the same decision, and a step that writes a projection is taken by a
\* worker whose own event is already in the ledger.
ProjectionsReferToDecisions ==
  /\ [](/\ \A r \in location_state : RefersToDecision(r)
        /\ \A k \in 1..Len(weather_snapshots) : RefersToDecision(weather_snapshots[k]))
  /\ [][(location_state' # location_state \/ weather_snapshots' # weather_snapshots)
        => \E w \in DOMAIN wk :
             /\ wk'[w] # wk[w]
             /\ \E i \in 1..Len(ledger) :
                  /\ ledger[i].event_hash = wk[w].eventHash
                  /\ ledger[i].prev_hash = wk[w].prevHash
                  /\ IsDecision(ledger[i])
                  /\ EventEntity(ledger[i]) = wk[w].loc]_vars

\* C23's case: jobs for two locations completed, and both projections hold
\* rows of both
ProjectionsReferToDecisionsWitness ==
  /\ Cardinality({r.location_id : r \in location_state}) = 2
  /\ Cardinality({weather_snapshots[k].location_id :
                    k \in 1..Len(weather_snapshots)}) = 2
  /\ \A w \in DOMAIN wk : wk[w].pc = "idle"


IsCommand(e) == e.event_type \in {"CMD_LOCATION_ADD", "CMD_LOCATION_REFRESH"}

\* among the first n ledger events there is a command event for the entity
CommandBefore(id, n) ==
  \E j \in 1..n : IsCommand(ledger[j]) /\ EventSubject(ledger[j]) = id

\* C24: command ordering: a step that enqueues a refresh-location job is
\* taken by a request whose command event for that entity is in the ledger;
\* every waiting job, every job in a worker's hands and every
\* DECISION_WEATHER_RISK event has a command event for its entity before it
\* in the ledger; and a request whose append fails (the select finds no row,
\* or the insert is rejected) ends in that step with nothing enqueued.
CommandOrdering ==
  /\ [](/\ \A i \in 1..Len(ledger) :
             IsDecision(ledger[i]) => CommandBefore(EventEntity(ledger[i]), i - 1)
        /\ \A k \in 1..Len(queue) : CommandBefore(queue[k], Len(ledger))
        /\ \A w \in DOMAIN wk :
             wk[w].pc # "idle" => CommandBefore(wk[w].loc, Len(ledger)))
  /\ [][/\ Len(queue') > Len(queue) =>
             \E a \in DOMAIN api :
               /\ ApiEnqueue(a)
               /\ \E j \in 1..Len(ledger) :
                    /\ ledger[j].event_hash = api[a].eventHash
                    /\ ledger[j].event_type = api[a].eventType
                    /\ EventSubject(ledger[j]) = api[a].loc
        /\ \A a \in DOMAIN api :
             (/\ \/ ApiAppendRead(a) /\ ledger = << >>
                 \/ ApiAppendInsert(a) /\ HashTaken(ledger, api[a].eventHash)
              => /\ api'[a] = ApiDone("threw")
                 /\ queue' = queue)]_vars

\* C24's case: of two refresh commands for one location one was appended and
\* its job ran to a decision, the other's insert was rejected and it
\* enqueued nothing: one command event, one decision, no job left
CommandOrderingWitness ==
  /\ \E a, b \in DOMAIN api : api[a].res = "threw" /\ api[b].res = "ok"
  /\ cmds = 2
  /\ Cardinality({i \in 1..Len(ledger) : IsCommand(ledger[i])}) = 1
  /\ Cardinality({i \in 1..Len(ledger) : IsDecision(ledger[i])}) = 1
  /\ queue = << >>
  /\ \A w \in DOMAIN wk : wk[w].pc = "idle"

=============================================================================
